---------------------------- MODULE Spec2Model ----------------------------
(***************************************************************************)
(* A model of ccc (src/main.go): the crawl of the catechism's pages        *)
(* (getCatechism), the on-disk response cache (getOnce, urlToFilename),    *)
(* the resolution of links (vaticanURL), the extraction of numbered        *)
(* paragraphs (extractNumber) and the choice of the next page              *)
(* (getNextLink).                                                          *)
(*                                                                         *)
(* A string is a sequence of one-character strings, so that prefixes,      *)
(* separators, escapes and digits are computed as the code computes them.  *)
(***************************************************************************)
EXTENDS Integers, Sequences, FiniteSets, TLC

(***************************************************************************)
(* Bounds of the model.                                                    *)
(***************************************************************************)
\* Calls of getOnce one run of the program may make before the model stops it.
MaxVisits == 3
\* Runs of the program (process starts) over one cache directory.
MaxRuns == 2
\* Length of the generated tail of an input of the pure-function checks.
MaxTail == 2

(***************************************************************************)
(* Characters.                                                             *)
(***************************************************************************)
LowerLetters ==
    {"a","b","c","d","e","f","g","h","i","j","k","l","m",
     "n","o","p","q","r","s","t","u","v","w","x","y","z"}

UpperLetters ==
    {"A","B","C","D","E","F","G","H","I","J","K","L","M",
     "N","O","P","Q","R","S","T","U","V","W","X","Y","Z"}

Digits == {"0","1","2","3","4","5","6","7","8","9"}

HexDigits == Digits \cup {"a","b","c","d","e","f","A","B","C","D","E","F"}

\* A byte the model does not name: what an escape outside UnhexTable decodes to.
OtherByte == "\\"

\* strings.ToLower on one character.
LowerPairs ==
    {<<"A","a">>,<<"B","b">>,<<"C","c">>,<<"D","d">>,<<"E","e">>,<<"F","f">>,
     <<"G","g">>,<<"H","h">>,<<"I","i">>,<<"J","j">>,<<"K","k">>,<<"L","l">>,
     <<"M","m">>,<<"N","n">>,<<"O","o">>,<<"P","p">>,<<"Q","q">>,<<"R","r">>,
     <<"S","s">>,<<"T","t">>,<<"U","u">>,<<"V","v">>,<<"W","w">>,<<"X","x">>,
     <<"Y","y">>,<<"Z","z">>}

LowerChar(c) ==
    IF c \in UpperLetters THEN (CHOOSE p \in LowerPairs : p[1] = c)[2] ELSE c

(***************************************************************************)
(* The strings package.                                                    *)
(***************************************************************************)
ToLower(s) == [i \in 1..Len(s) |-> LowerChar(s[i])]

HasPrefix(s, p) == Len(s) >= Len(p) /\ SubSeq(s, 1, Len(p)) = p

\* strings.ReplaceAll(s, old, new) for one-character old and new.
ReplaceAll(s, old, new) == [i \in 1..Len(s) |-> IF s[i] = old THEN new ELSE s[i]]

\* strings.TrimRight(s, cutset) for a one-character cutset.
RECURSIVE TrimRight(_, _)
TrimRight(s, c) ==
    IF Len(s) > 0 /\ s[Len(s)] = c THEN TrimRight(SubSeq(s, 1, Len(s) - 1), c) ELSE s

\* The index of the first c in s, 0 when there is none (strings.Index + 1).
Index(s, c) ==
    IF \E i \in 1..Len(s) : s[i] = c
    THEN CHOOSE i \in 1..Len(s) : s[i] = c /\ \A j \in 1..(i - 1) : s[j] # c
    ELSE 0

\* The index of the last c in s, 0 when there is none.
LastIndex(s, c) ==
    IF \E i \in 1..Len(s) : s[i] = c
    THEN CHOOSE i \in 1..Len(s) : s[i] = c /\ \A j \in (i + 1)..Len(s) : s[j] # c
    ELSE 0

Contains(s, c) == \E i \in 1..Len(s) : s[i] = c

\* strings.Split(s, "/"): the pieces between the separators, empty ones kept.
RECURSIVE Split(_, _)
Split(s, sep) ==
    LET i == Index(s, sep) IN
    IF i = 0 THEN <<s>>
    ELSE <<SubSeq(s, 1, i - 1)>> \o Split(SubSeq(s, i + 1, Len(s)), sep)

\* The pieces put together again with sep between them.
RECURSIVE JoinWith(_, _)
JoinWith(segs, sep) ==
    IF Len(segs) = 0 THEN <<>>
    ELSE IF Len(segs) = 1 THEN segs[1]
    ELSE segs[1] \o <<sep>> \o JoinWith(Tail(segs), sep)


(***************************************************************************)
(* The path package: path.Clean and path.Join (filepath.Clean is the same  *)
(* function where the separator is "/").                                   *)
(***************************************************************************)
\* One element of the path applied to the elements kept so far.
CleanStep(stack, seg, rooted) ==
    IF seg = <<>> \/ seg = <<".">> THEN stack
    ELSE IF seg = <<".", ".">>
         THEN IF Len(stack) > 0 /\ stack[Len(stack)] # <<".", ".">>
              THEN SubSeq(stack, 1, Len(stack) - 1)
              ELSE IF rooted THEN stack ELSE Append(stack, seg)
         ELSE Append(stack, seg)

RECURSIVE CleanFold(_, _, _)
CleanFold(segs, stack, rooted) ==
    IF Len(segs) = 0 THEN stack
    ELSE CleanFold(Tail(segs), CleanStep(stack, Head(segs), rooted), rooted)

\* The cleaned path written out from the elements kept.
CleanJoin(rooted, kept) ==
    IF rooted THEN <<"/">> \o JoinWith(kept, "/")
    ELSE IF Len(kept) = 0 THEN <<".">> ELSE JoinWith(kept, "/")

Clean(p) ==
    IF Len(p) = 0 THEN <<".">>
    ELSE CleanJoin(p[1] = "/", CleanFold(Split(p, "/"), <<>>, p[1] = "/"))

\* path.Join(a, b): the non-empty elements joined by "/" and cleaned.
PathJoin(a, b) ==
    IF Len(a) = 0 /\ Len(b) = 0 THEN <<>>
    ELSE IF Len(b) = 0 THEN Clean(a)
    ELSE IF Len(a) = 0 THEN Clean(b)
    ELSE Clean(a \o <<"/">> \o b)

(***************************************************************************)
(* The net/url package, as far as main.go uses it: url.Parse,              *)
(* URL.ResolveReference and URL.String.  Inputs hold no control byte, no   *)
(* "#", no "@" and no "[", so fragments, user information and IPv6 hosts   *)
(* are left out.                                                           *)
(***************************************************************************)
\* %XY escapes the model decodes to a character of its own.
UnhexTable ==
    {<<"2","F","/">>, <<"2","f","/">>, <<"2","E",".">>, <<"2","e",".">>,
     <<"5","F","_">>, <<"5","f","_">>, <<"3","C","<">>, <<"3","c","<">>,
     <<"3","E",">">>, <<"3","e",">">>, <<"2","2","\"">>, <<"7","C","|">>,
     <<"7","c","|">>, <<"3","F","?">>, <<"3","f","?">>, <<"2","A","*">>,
     <<"2","a","*">>, <<"3","A",":">>, <<"3","a",":">>, <<"2","5","%">>,
     <<"2","0"," ">>}

Unhex(a, b) ==
    IF \E t \in UnhexTable : t[1] = a /\ t[2] = b
    THEN (CHOOSE t \in UnhexTable : t[1] = a /\ t[2] = b)[3]
    ELSE OtherByte

\* Whether every "%" of s starts a %XY escape (unescape's first pass).
ValidEscapes(s) ==
    \A i \in 1..Len(s) :
        s[i] = "%" => /\ i + 2 <= Len(s)
                      /\ s[i + 1] \in HexDigits
                      /\ s[i + 2] \in HexDigits

\* unescape(s, encodePath) of a string with valid escapes.
RECURSIVE Unescape(_)
Unescape(s) ==
    IF Len(s) = 0 THEN <<>>
    ELSE IF s[1] = "%" /\ Len(s) >= 3
         THEN <<Unhex(s[2], s[3])>> \o Unescape(SubSeq(s, 4, Len(s)))
         ELSE <<s[1]>> \o Unescape(Tail(s))

\* shouldEscape(c, encodePath).
ShouldEscapePath(c) ==
    ~ (c \in LowerLetters \cup UpperLetters \cup Digits
            \cup {"-", "_", ".", "~", "$", "&", "+", ",", "/", ":", ";", "=", "@"})

\* The escape of one character the model names (escape's "%XY").
EscapeChar(c) ==
    IF ~ShouldEscapePath(c) THEN <<c>>
    ELSE IF c = "<" THEN <<"%","3","C">>
    ELSE IF c = ">" THEN <<"%","3","E">>
    ELSE IF c = "\"" THEN <<"%","2","2">>
    ELSE IF c = "|" THEN <<"%","7","C">>
    ELSE IF c = "?" THEN <<"%","3","F">>
    ELSE IF c = "*" THEN <<"%","2","A">>
    ELSE IF c = "%" THEN <<"%","2","5">>
    ELSE IF c = " " THEN <<"%","2","0">>
    ELSE <<"%","5","C">>

\* escape(s, encodePath).
RECURSIVE EscapePath(_)
EscapePath(s) ==
    IF Len(s) = 0 THEN <<>> ELSE EscapeChar(s[1]) \o EscapePath(Tail(s))

\* validEncoded(s, encodePath).
ValidEncoded(s) ==
    \A i \in 1..Len(s) :
        \/ s[i] \in {"!", "$", "&", "'", "(", ")", "*", "+", ",", ";", "=", ":", "@",
                     "[", "]", "%"}
        \/ ~ShouldEscapePath(s[i])

\* getScheme: the index of the ":" that ends the scheme, 0 when the string has
\* no scheme, -1 for "missing protocol scheme".
RECURSIVE SchemeEnd(_, _)
SchemeEnd(s, i) ==
    IF i > Len(s) THEN 0
    ELSE IF s[i] \in LowerLetters \cup UpperLetters THEN SchemeEnd(s, i + 1)
    ELSE IF s[i] \in Digits \cup {"+", "-", "."}
         THEN IF i = 1 THEN 0 ELSE SchemeEnd(s, i + 1)
    ELSE IF s[i] = ":" THEN IF i = 1 THEN -1 ELSE i
    ELSE 0

\* validOptionalPort: "" or ":" followed by digits.
ValidOptionalPort(port) ==
    \/ Len(port) = 0
    \/ /\ port[1] = ":"
       /\ \A i \in 2..Len(port) : port[i] \in Digits

\* parseHost: the port is checked, and the host may hold no "%" escape and no
\* character that shouldEscape(c, encodeHost) refuses.
ValidHost(host) ==
    /\ LET i == LastIndex(host, ":") IN
           i # 0 => ValidOptionalPort(SubSeq(host, i, Len(host)))
    /\ \A i \in 1..Len(host) :
           host[i] \in LowerLetters \cup UpperLetters \cup Digits
               \cup {"-", "_", ".", "~", "!", "$", "&", "'", "(", ")", "*", "+", ",",
                     ";", "=", ":", "<", ">", "\""}

NoURL ==
    [err |-> TRUE, Scheme |-> <<>>, Opaque |-> <<>>, Host |-> <<>>, Path |-> <<>>,
     RawPath |-> <<>>, ForceQuery |-> FALSE, RawQuery |-> <<>>]

\* url.Parse, last stage: setPath on what follows the authority.
ParsePath(scheme, host, path, force, query) ==
    IF ~ValidEscapes(path) THEN NoURL
    ELSE [err |-> FALSE, Scheme |-> scheme, Opaque |-> <<>>, Host |-> host,
          Path |-> Unescape(path),
          RawPath |-> IF path = EscapePath(Unescape(path)) THEN <<>> ELSE path,
          ForceQuery |-> force, RawQuery |-> query]

\* url.Parse: the authority "//host" is cut at the next "/"; slash is the index
\* of that "/" in after, the text behind "//".
ParseAuthority(scheme, after, slash, force, query) ==
    IF ~ValidHost(IF slash = 0 THEN after ELSE SubSeq(after, 1, slash - 1)) THEN NoURL
    ELSE ParsePath(scheme,
                   IF slash = 0 THEN after ELSE SubSeq(after, 1, slash - 1),
                   IF slash = 0 THEN <<>> ELSE SubSeq(after, slash, Len(after)),
                   force, query)

\* url.Parse on rest, the text between the scheme and the query.
ParseRest(scheme, rest, force, query) ==
    IF (Len(rest) = 0 \/ rest[1] # "/") /\ scheme # <<>>
    THEN [NoURL EXCEPT !.err = FALSE, !.Scheme = scheme, !.Opaque = rest,
                       !.ForceQuery = force, !.RawQuery = query]
    ELSE IF (Len(rest) = 0 \/ rest[1] # "/") /\ Contains(Split(rest, "/")[1], ":")
         THEN NoURL
    ELSE IF /\ HasPrefix(rest, <<"/", "/">>)
            /\ (scheme # <<>> \/ ~HasPrefix(rest, <<"/", "/", "/">>))
         THEN ParseAuthority(scheme, SubSeq(rest, 3, Len(rest)),
                             Index(SubSeq(rest, 3, Len(rest)), "/"), force, query)
    ELSE ParsePath(scheme, <<>>, rest, force, query)

\* url.Parse: the query is what follows the first "?"; q is the index of it.
ParseQuery(scheme, rest, q) ==
    IF q = 0 THEN ParseRest(scheme, rest, FALSE, <<>>)
    ELSE ParseRest(scheme, SubSeq(rest, 1, q - 1), q = Len(rest),
                   SubSeq(rest, q + 1, Len(rest)))

\* url.Parse: se is what getScheme found.
ParseScheme(raw, se) ==
    IF se = -1 THEN NoURL
    ELSE IF se = 0 THEN ParseQuery(<<>>, raw, Index(raw, "?"))
    ELSE ParseQuery(ToLower(SubSeq(raw, 1, se - 1)), SubSeq(raw, se + 1, Len(raw)),
                    Index(SubSeq(raw, se + 1, Len(raw)), "?"))

\* url.Parse(rawURL): the URL's fields, err when the string does not parse.
Parse(raw) ==
    IF raw = <<"*">> THEN [NoURL EXCEPT !.err = FALSE, !.Path = <<"*">>]
    ELSE ParseScheme(raw, SchemeEnd(raw, 1))

\* URL.EscapedPath.
EscapedPath(u) ==
    IF u.RawPath # <<>> /\ ValidEncoded(u.RawPath)
       /\ ValidEscapes(u.RawPath) /\ Unescape(u.RawPath) = u.Path
    THEN u.RawPath
    ELSE IF u.Path = <<"*">> THEN u.Path ELSE EscapePath(u.Path)

\* URL.setPath.
SetPath(u, p) ==
    [u EXCEPT !.Path = Unescape(p),
              !.RawPath = IF p = EscapePath(Unescape(p)) THEN <<>> ELSE p]

\* resolvePath's loop over the elements of the path: what one element does to
\* the path written so far.
ResolveStep(st, elem) ==
    IF elem = <<".">> THEN [st EXCEPT !.first = FALSE]
    ELSE IF elem = <<".", ".">>
         THEN LET str == Tail(st.dst)
                  idx == LastIndex(str, "/")
              IN IF idx = 0 THEN [dst |-> <<"/">>, first |-> TRUE]
                 ELSE [st EXCEPT !.dst = <<"/">> \o SubSeq(str, 1, idx - 1)]
         ELSE [dst |-> st.dst \o (IF st.first THEN <<>> ELSE <<"/">>) \o elem,
               first |-> FALSE]

RECURSIVE ResolveFold(_, _)
ResolveFold(elems, st) ==
    IF Len(elems) = 0 THEN st ELSE ResolveFold(Tail(elems), ResolveStep(st, Head(elems)))

\* resolvePath's last statement: a doubled "/" at the start is cut.
CutDouble(r) == IF Len(r) > 1 /\ r[2] = "/" THEN Tail(r) ELSE r

\* resolvePath, after its loop: a last element "." or ".." leaves a "/" at the end.
ResolveEnd(dst, last) ==
    CutDouble(IF last = <<".">> \/ last = <<".", ".">> THEN dst \o <<"/">> ELSE dst)

ResolveElems(elems) ==
    ResolveEnd(ResolveFold(elems, [dst |-> <<"/">>, first |-> TRUE]).dst,
               elems[Len(elems)])

\* resolvePath(base, ref).
ResolvePath(base, ref) ==
    IF Len(ref) = 0
    THEN IF Len(base) = 0 THEN <<>> ELSE ResolveElems(Split(base, "/"))
    ELSE IF ref[1] # "/"
         THEN ResolveElems(Split(SubSeq(base, 1, LastIndex(base, "/")) \o ref, "/"))
         ELSE ResolveElems(Split(ref, "/"))

\* URL.ResolveReference(ref) on base u.
ResolveReference(u, ref) ==
    IF ref.Scheme # <<>>
    THEN SetPath(ref, ResolvePath(EscapedPath(ref), <<>>))
    ELSE IF ref.Host # <<>>
         THEN SetPath([ref EXCEPT !.Scheme = u.Scheme],
                      ResolvePath(EscapedPath(ref), <<>>))
    ELSE IF ref.Opaque # <<>>
         THEN [ref EXCEPT !.Scheme = u.Scheme, !.Host = <<>>, !.Path = <<>>,
                          !.RawPath = <<>>]
    ELSE SetPath([ref EXCEPT !.Scheme = u.Scheme, !.Host = u.Host,
                             !.RawQuery = IF /\ ref.Path = <<>>
                                             /\ ~ref.ForceQuery
                                             /\ ref.RawQuery = <<>>
                                          THEN u.RawQuery ELSE ref.RawQuery],
                 ResolvePath(EscapedPath(u), EscapedPath(ref)))

\* URL.String, the scheme and the authority written: what follows them.
URLTail(u, head, path) ==
    head
    \o (IF Len(path) > 0 /\ path[1] # "/" /\ u.Host # <<>> THEN <<"/">> ELSE <<>>)
    \o (IF head = <<>> /\ Contains(Split(path, "/")[1], ":") THEN <<".", "/">> ELSE <<>>)
    \o path
    \o (IF u.ForceQuery \/ u.RawQuery # <<>> THEN <<"?">> \o u.RawQuery ELSE <<>>)

\* URL.String.
URLString(u) ==
    IF u.Opaque # <<>>
    THEN (IF u.Scheme # <<>> THEN u.Scheme \o <<":">> ELSE <<>>) \o u.Opaque
         \o (IF u.ForceQuery \/ u.RawQuery # <<>> THEN <<"?">> \o u.RawQuery ELSE <<>>)
    ELSE URLTail(u,
                 (IF u.Scheme # <<>> THEN u.Scheme \o <<":">> ELSE <<>>)
                 \o (IF (u.Scheme # <<>> \/ u.Host # <<>>)
                        /\ (u.Host # <<>> \/ u.Path # <<>>)
                     THEN <<"/", "/">> \o u.Host ELSE <<>>),
                 EscapedPath(u))

(***************************************************************************)
(* main.go: the constants and the two URL functions.                       *)
(***************************************************************************)
\* const vatican = "https://www.vatican.va"
vatican ==
    <<"h","t","t","p","s",":","/","/","w","w","w",".","v","a","t","i","c","a","n",".","v","a">>

\* const archeng = "/archive/ENG0015"
archeng == <<"/","a","r","c","h","i","v","e","/","E","N","G","0","0","1","5">>

\* The prefix vaticanURL and getOnce look for.
http == <<"h","t","t","p">>

\* vaticanURL after both url.Parse calls: an error of either is returned with
\* the empty string, otherwise the reference resolved against the base.
Resolved(u, rel) ==
    IF u.err \/ rel.err THEN [url |-> <<>>, err |-> TRUE]
    ELSE [url |-> URLString(ResolveReference(u, rel)), err |-> FALSE]

\* vaticanURL(relativePath): the URL and whether an error is returned with it.
vaticanURL(relativePath) ==
    IF HasPrefix(ToLower(relativePath), http)
    THEN [url |-> relativePath, err |-> FALSE]
    ELSE Resolved(Parse(vatican), Parse(PathJoin(archeng, relativePath)))

\* var vaticanFirstPage, _ = vaticanURL("/__P2.HTM")
vaticanFirstPage == vaticanURL(<<"/","_","_","P","2",".","H","T","M">>).url

\* The characters urlToFilename removes: [<>:"|?*].
illegalChars == {"<", ">", ":", "\"", "|", "?", "*"}

\* urlToFilename after url.Parse: "/" becomes "_", the "_" at the end are cut,
\* the illegal characters are removed and the rest is cleaned.
FilenameOf(u) ==
    IF u.err THEN [exit |-> TRUE, name |-> <<>>]
    ELSE [exit |-> FALSE,
          name |-> Clean(SelectSeq(TrimRight(ReplaceAll(u.Path, "/", "_"), "_"),
                                   LAMBDA c : c \notin illegalChars))]

\* urlToFilename(urlStr): the name of the cache file; exit when the process
\* ends on a URL that does not parse.
urlToFilename(urlStr) == FilenameOf(Parse(urlStr))

(***************************************************************************)
(* main.go: extractNumber and getNextLink.                                 *)
(***************************************************************************)
\* The number of digits of the largest int (int64): 9223372036854775807.
IntDigits == 19

MaxIntDigits ==
    <<"9","2","2","3","3","7","2","0","3","6","8","5","4","7","7","5","8","0","7">>

\* The length of the run of digits str starts with: the match of ^(\d+).
RECURSIVE DigitRun(_)
DigitRun(str) ==
    IF Len(str) > 0 /\ str[1] \in Digits THEN 1 + DigitRun(Tail(str)) ELSE 0

DigitValue(c) == CHOOSE v \in 0..9 : <<"0","1","2","3","4","5","6","7","8","9">>[v + 1] = c

\* A run of digits without its leading zeros.
RECURSIVE StripZeros(_)
StripZeros(ds) ==
    IF Len(ds) > 0 /\ ds[1] = "0" THEN StripZeros(Tail(ds)) ELSE ds

\* Whether the number a is at most the number b, both runs of the same length.
RECURSIVE DigitsLeq(_, _)
DigitsLeq(a, b) ==
    IF Len(a) = 0 THEN TRUE
    ELSE IF a[1] # b[1] THEN DigitValue(a[1]) < DigitValue(b[1])
    ELSE DigitsLeq(Tail(a), Tail(b))

\* Whether strconv.Atoi takes the run of digits: its value fits in an int.
\* Otherwise Atoi returns a range error.
InRange(sig) ==
    \/ Len(sig) < IntDigits
    \/ Len(sig) = IntDigits /\ DigitsLeq(sig, MaxIntDigits)

\* strconv.Atoi of a run of digits in range (the numbers of the model's pages
\* are short).
RECURSIVE Atoi(_)
Atoi(ds) ==
    IF Len(ds) = 0 THEN 0
    ELSE 10 * Atoi(SubSeq(ds, 1, Len(ds) - 1)) + DigitValue(ds[Len(ds)])

\* extractNumber after the match: the error of Atoi gives (0, false).
Converted(sig) ==
    IF InRange(sig) THEN [num |-> Atoi(sig), ok |-> TRUE]
    ELSE [num |-> 0, ok |-> FALSE]

\* extractNumber(str): the number and whether str starts with one.
extractNumber_FirstDigit(str) ==
    IF DigitRun(str) = 0 THEN [num |-> 0, ok |-> FALSE]
    ELSE Converted(StripZeros(SubSeq(str, 1, 1)))

extractNumber(str) ==
    IF DigitRun(str) = 0 THEN [num |-> 0, ok |-> FALSE]
    ELSE Converted(StripZeros(SubSeq(str, 1, DigitRun(str))))

Next_ == <<"N","e","x","t">>

\* The links of the document labelled "Next", in document order.
NextLinks(doc) == SelectSeq(doc.links, LAMBDA l : l.label = Next_)

\* getNextLink(doc): Each visits every <a>, and the closure's return ends only
\* the visit of one element, so the last link labelled "Next" is the one kept.
\* found is FALSE for the nil selection.
getNextLink(doc) ==
    LET ls == NextLinks(doc) IN
    IF Len(ls) = 0 THEN [found |-> FALSE, href |-> <<>>]
    ELSE [found |-> TRUE, href |-> ls[Len(ls)].href]

(***************************************************************************)
(* The pages the site may serve: each a sequence of <p> texts and a        *)
(* sequence of <a> links in document order.                                *)
(***************************************************************************)
Link(label, href) == [label |-> label, href |-> href]

T_1a == <<"1"," ","a">>
T_1b == <<"1"," ","b">>
T_2c == <<"2"," ","c">>
T_x  == <<"x">>
T_07 == <<"0","7"," ","d">>
T_0 == <<"0"," ","z">>
\* A text that starts with twenty digits: 10000000000000000000 is no int.
T_big == <<"1","0","0","0","0","0","0","0","0","0","0","0","0","0","0","0","0","0","0","0"," ","e">>

H_a    == <<"a",".","h">>
H_b    == <<"b",".","h">>
H_q    == <<"_","_","P","2",".","H","T","M","?","p">>
H_root == <<".",".","/",".",".">>
H_bad  == <<"%">>
H_http == <<"h","t","t","p",".","h">>

L_NEXT  == <<"N","E","X","T">>
L_Next_ == <<"N","e","x","t"," ">>

Pages ==
    { [paras |-> <<T_2c>>,             links |-> <<>>],
      [paras |-> <<T_1a, T_x, T_big, T_1b>>, links |-> <<Link(Next_, H_a)>>],
      [paras |-> <<T_1b, T_07, T_0>>,       links |-> <<Link(Next_, H_a), Link(Next_, H_b)>>],
      [paras |-> <<T_x>>,              links |-> <<Link(L_NEXT, H_a), Link(L_Next_, H_b)>>],
      [paras |-> <<T_1a>>,             links |-> <<Link(Next_, H_q)>>],
      [paras |-> <<T_2c, T_1a>>,       links |-> <<Link(Next_, H_root)>>],
      [paras |-> <<T_1b>>,             links |-> <<Link(Next_, H_bad)>>],
      [paras |-> <<T_2c>>,             links |-> <<Link(L_NEXT, H_b), Link(Next_, H_http)>>] }

\* What goquery makes of no bytes at all: a document with no <p> and no <a>.
EmptyDoc == [paras |-> <<>>, links |-> <<>>]

\* httputil.DumpResponse(res, true): the bytes of a response that carries page.
DumpResponse(page) == [full |-> TRUE, page |-> page]

\* No bytes: the content of a file nothing was written to, and the nil data of
\* a read that failed.
NoBytes == [full |-> FALSE, page |-> EmptyDoc]

\* goquery.NewDocumentFromReader(body): the HTML parser takes any bytes.
NewDocument(data) == data.page

\* http.Get needs a URL with the scheme http or https and a host.
Gettable(u) == ~u.err /\ u.Scheme \in {http, http \o <<"s">>} /\ u.Host # <<>>

CanGet(url) == Gettable(Parse(url))

(***************************************************************************)
(* getOnce.  The cache directory exists; "." and ".." name directories in  *)
(* it, which os.Stat finds and ioutil.ReadFile cannot read.  fault is what *)
(* the environment makes fail during the call ("none": nothing).           *)
(***************************************************************************)
Faults == {"none", "stat", "get", "dump", "create", "write", "read"}

IsDirName(name) == name = <<".">> \/ name = <<".", ".">>

\* The outcome of a call that ends the process (os.Exit(1)).
Exit(files, net, ioFail) ==
    [exit |-> TRUE, data |-> NoBytes, files |-> files, net |-> net, ioFail |-> ioFail]

\* getOnce when os.Stat reports that the file is not there: the GET, the dump
\* of the response, os.Create and file.Write, then the read of the file.
\* file.Write's error is not looked at.
Miss_NoWrite(name, canGet, body, files, fault) ==
    IF fault = "get" \/ ~canGet THEN Exit(files, TRUE, FALSE)
    ELSE [exit |-> FALSE, data |-> body, files |-> files, net |-> TRUE, ioFail |-> FALSE]

Miss(name, canGet, body, files, fault) ==
    IF fault = "get" \/ ~canGet THEN Exit(files, TRUE, FALSE)
    ELSE IF fault = "dump" THEN Exit(files, TRUE, FALSE)
    ELSE IF fault = "create" THEN Exit(files, TRUE, TRUE)
    ELSE IF fault = "write"
         THEN [exit |-> FALSE, data |-> NoBytes, files |-> files @@ (name :> NoBytes),
               net |-> TRUE, ioFail |-> TRUE]
    ELSE [exit |-> FALSE, data |-> body, files |-> files @@ (name :> body),
          net |-> TRUE, ioFail |-> FALSE]

\* getOnce when os.Stat finds the file, or fails otherwise than with "not
\* there": only the read of the file, whose error is printed and not fatal.
Hit_Truncate(name, files, fault) ==
    IF fault = "read" \/ IsDirName(name) \/ name \notin DOMAIN files
    THEN [exit |-> FALSE, data |-> NoBytes, files |-> files, net |-> FALSE,
          ioFail |-> TRUE]
    ELSE [exit |-> FALSE, data |-> NoBytes, files |-> [files EXCEPT ![name] = NoBytes],
          net |-> FALSE, ioFail |-> fault = "stat"]

Hit(name, files, fault) ==
    IF fault = "read" \/ IsDirName(name) \/ name \notin DOMAIN files
    THEN [exit |-> FALSE, data |-> NoBytes, files |-> files, net |-> FALSE,
          ioFail |-> TRUE]
    ELSE [exit |-> FALSE, data |-> files[name], files |-> files, net |-> FALSE,
          ioFail |-> fault = "stat"]

\* The URL getOnce requests: urlStr, or vaticanURL(urlStr) without the prefix.
FullURL(urlStr) == IF HasPrefix(urlStr, http) THEN urlStr ELSE vaticanURL(urlStr).url

\* The response to a GET of url, dumped.
Response(site, url) == DumpResponse(site[url])

\* Whether os.Stat reports that the cache file of a URL is not there.
Absent(fn, files) == ~fn.exit /\ ~IsDirName(fn.name) /\ fn.name \notin DOMAIN files

\* getOnce after urlToFilename.
getOnceNamed_NoStat(fn, urlStr, files, site, fault) ==
    IF fn.exit THEN Exit(files, FALSE, FALSE)
    ELSE IF IsDirName(fn.name) THEN Hit(fn.name, files, fault)
    ELSE Miss(fn.name, CanGet(FullURL(urlStr)), Response(site, FullURL(urlStr)),
              [n \in DOMAIN files \ {fn.name} |-> files[n]], fault)

getOnceNamed(fn, urlStr, files, site, fault) ==
    IF fn.exit THEN Exit(files, FALSE, FALSE)
    ELSE IF fault # "stat" /\ ~IsDirName(fn.name) /\ fn.name \notin DOMAIN files
         THEN Miss(fn.name, CanGet(FullURL(urlStr)), Response(site, FullURL(urlStr)),
                   files, fault)
    ELSE Hit(fn.name, files, fault)

\* getOnce(urlStr) over the cache files and the site: whether the process
\* exits, the bytes returned, the files afterwards, whether a network request
\* was made, and whether an operation on the cache file failed.
getOnce(urlStr, files, site, fault) ==
    getOnceNamed(urlToFilename(urlStr), urlStr, files, site, fault)

(***************************************************************************)
(* The state.                                                              *)
(***************************************************************************)
VARIABLES
    pc,          \* where main is: Fetching, Extracting, LocatingNext and Done (in
                 \* getCatechism), Printed, Listed, Exited
    urlStr,      \* getCatechism's urlStr
    paragraphs,  \* getCatechism's map from number to Paragraph
    doc,         \* the goquery document of the page being processed
    cache,       \* the files of ./cache: file name -> bytes
    site,        \* what the server answers: URL -> page, for the URLs named so far
    run,         \* the number of this run of the program over the cache directory
    visited,     \* the URLs this run has passed to getOnce, in order
    netCount,    \* the network requests this run has made
    cold,        \* whether this run started with an empty cache
    candidates,  \* the numbered <p> texts this run has met, in order: <<number, text>>
    returned,    \* URL -> the bytes the first call of getOnce that returned gave for it
    last,        \* the last call of getOnce
    prev,        \* how the run before this one ended
    failed,      \* whether vaticanURL has returned an error to this run
    arg,         \* the input of a function applied on its own
    out,         \* its result
    op,          \* the function applied
    calls        \* the calls of getOnce two processes make at the same time

vars ==
    <<pc, urlStr, paragraphs, doc, cache, site, run, visited, netCount, cold,
      candidates, returned, last, prev, failed, arg, out, op, calls>>

NoCall ==
    [called |-> FALSE, url |-> <<>>, exit |-> FALSE, data |-> NoBytes, net |-> FALSE,
     ioFail |-> FALSE, known |-> FALSE, prior |-> NoBytes, absent |-> FALSE]

NoPrev == [ran |-> FALSE, done |-> FALSE, cold |-> FALSE, index |-> <<>>, net |-> 0]

NoOut ==
    [url |-> <<>>, err |-> FALSE, exit |-> FALSE, name |-> <<>>,
     num |-> 0, ok |-> FALSE, text |-> <<>>]

\* The processes that may run getOnce at the same time over one cache directory.
Procs == {1, 2}

\* A call of getOnce at the line "at", with its body and data, whether os.Stat
\* found the file, and whether the call ran while another one was under way.
CallAt(at) ==
    [at |-> at, body |-> NoBytes, data |-> NoBytes, found |-> FALSE, overlapped |-> FALSE]

\* The start of main: getCatechism is entered with an empty map.
Init ==
    /\ pc = "Fetching"
    /\ urlStr = vaticanFirstPage
    /\ paragraphs = <<>>
    /\ doc = EmptyDoc
    /\ cache = <<>>
    /\ \E p \in Pages : site = (vaticanFirstPage :> p)
    /\ run = 1
    /\ visited = <<>>
    /\ netCount = 0
    /\ cold = TRUE
    /\ candidates = <<>>
    /\ returned = <<>>
    /\ last = NoCall
    /\ prev = NoPrev
    /\ failed = FALSE
    /\ arg = <<>>
    /\ out = NoOut
    /\ op = "none"
    /\ calls = [p \in Procs |-> CallAt("none")]

pureVars == <<arg, out, op>>

(***************************************************************************)
(* getCatechism, one action for each stage of its loop.                    *)
(***************************************************************************)
\* What a call of getOnce with the outcome r leaves behind.
Fetched(r) ==
    /\ cache' = r.files
    /\ visited' = Append(visited, urlStr)
    /\ netCount' = netCount + (IF r.net THEN 1 ELSE 0)
    /\ last' = [called |-> TRUE, url |-> urlStr, exit |-> r.exit, data |-> r.data,
                net |-> r.net, ioFail |-> r.ioFail,
                known |-> urlStr \in DOMAIN returned,
                prior |-> IF urlStr \in DOMAIN returned THEN returned[urlStr]
                          ELSE NoBytes,
                absent |-> Absent(urlToFilename(urlStr), cache)]
    /\ returned' = IF ~r.exit /\ urlStr \notin DOMAIN returned
                   THEN returned @@ (urlStr :> r.data) ELSE returned
    /\ pc' = IF r.exit THEN "Exited" ELSE "Extracting"
    /\ doc' = IF r.exit THEN doc ELSE NewDocument(r.data)

\* body := getOnce(urlStr); doc, err := goquery.NewDocumentFromReader(body)
Fetch(fault) ==
    /\ pc = "Fetching"
    /\ Len(visited) < MaxVisits
    /\ \E r \in {getOnce(urlStr, cache, site, fault)} : Fetched(r)
    /\ UNCHANGED <<urlStr, paragraphs, site, run, cold, candidates, prev, failed,
                   pureVars, calls>>

\* The closure of doc.Find("p").Each on one <p>: the paragraph is stored when
\* its text starts with a number that the map does not hold yet.
StoreParagraph_Overwrite(index, text) ==
    LET e == extractNumber(text) IN
    IF e.ok
    THEN [n \in DOMAIN index \cup {e.num} |->
             IF n = e.num THEN [Number |-> e.num, Text |-> text] ELSE index[n]]
    ELSE index

StoreParagraph(index, text) ==
    LET e == extractNumber(text) IN
    IF e.ok /\ e.num \notin DOMAIN index
    THEN index @@ (e.num :> [Number |-> e.num, Text |-> text])
    ELSE index

\* doc.Find("p").Each(...): the <p> elements in document order.
RECURSIVE StoreAll(_, _)
StoreAll(index, texts) ==
    IF Len(texts) = 0 THEN index
    ELSE StoreAll(StoreParagraph(index, Head(texts)), Tail(texts))

\* The numbered texts among texts, in order, each with its number.
RECURSIVE Numbered(_)
Numbered(texts) ==
    IF Len(texts) = 0 THEN <<>>
    ELSE LET e == extractNumber(Head(texts)) IN
         (IF e.ok THEN <<(<<e.num, Head(texts)>>)>> ELSE <<>>) \o Numbered(Tail(texts))

Extract ==
    /\ pc = "Extracting"
    /\ paragraphs' = StoreAll(paragraphs, doc.paras)
    /\ candidates' = candidates \o Numbered(doc.paras)
    /\ pc' = "LocatingNext"
    /\ UNCHANGED <<urlStr, doc, cache, site, run, visited, netCount, cold, returned,
                   last, prev, failed, pureVars, calls>>

\* urlStr, err = vaticanURL(urlPath): an error is only printed, and the loop
\* goes on with the string returned.  The server's page for a URL is fixed
\* when the URL is first named.
Follow(r) ==
    /\ pc' = "Fetching"
    /\ urlStr' = r.url
    /\ failed' = (failed \/ r.err)
    /\ IF r.url \notin DOMAIN site /\ CanGet(r.url)
       THEN \E p \in Pages : site' = site @@ (r.url :> p)
       ELSE site' = site

\* next := getNextLink(doc): nil returns the map, otherwise the href is followed.
Located_Guarded(next) ==
    IF ~next.found \/ (\E i \in 1..Len(visited) : visited[i] = vaticanURL(next.href).url)
    THEN /\ pc' = "Done"
         /\ UNCHANGED <<urlStr, site, failed>>
    ELSE Follow(vaticanURL(next.href))

Located(next) ==
    IF ~next.found
    THEN /\ pc' = "Done"
         /\ UNCHANGED <<urlStr, site, failed>>
    ELSE \E r \in {vaticanURL(next.href)} : Follow(r)

LocateNext ==
    /\ pc = "LocatingNext"
    /\ Located(getNextLink(doc))
    /\ UNCHANGED <<paragraphs, doc, cache, run, visited, netCount, cold, candidates,
                   returned, last, prev, pureVars, calls>>

(***************************************************************************)
(* main after getCatechism: the paragraph asked for is printed, or all of  *)
(* them.                                                                   *)
(***************************************************************************)
\* What os.Args[1:] may be: nothing, or one argument.
Args ==
    { <<>>, << <<"1">> >>, << <<"2">> >>, << <<"9">> >>, << <<"-","1">> >>,
      << <<"x">> >> }

\* An argument without its sign.
Unsigned(a) == IF Len(a) > 0 /\ a[1] \in {"+", "-"} THEN Tail(a) ELSE a

\* strconv.Atoi(os.Args[1]) given the argument's digits: an error unless they
\* are one or more decimal digits of a number in range.
AtoiDigits(a, ds) ==
    IF Len(ds) = 0 \/ DigitRun(ds) # Len(ds) \/ ~InRange(StripZeros(ds))
    THEN [num |-> 0, ok |-> FALSE]
    ELSE [num |-> (IF a[1] = "-" THEN -1 ELSE 1) * Atoi(StripZeros(ds)), ok |-> TRUE]

AtoiArg(a) == AtoiDigits(a, Unsigned(a))

\* paragraphs[paragraphNumber].Text: the text and the map afterwards.  A map
\* gives the zero Paragraph for a key it does not hold.
Looked_Insert(index, n) ==
    IF n \in DOMAIN index THEN [text |-> index[n].Text, index |-> index]
    ELSE [text |-> <<>>, index |-> index @@ (n :> [Number |-> 0, Text |-> <<>>])]

Looked(index, n) ==
    [text |-> IF n \in DOMAIN index THEN index[n].Text ELSE <<>>, index |-> index]

\* main with an argument: an argument that is no number ends the process,
\* otherwise the text found is printed.
Shown(a, r) ==
    /\ op' = "lookup"
    /\ IF ~a.ok
       THEN /\ pc' = "Exited"
            /\ out' = [NoOut EXCEPT !.exit = TRUE]
            /\ paragraphs' = paragraphs
       ELSE /\ pc' = "Printed"
            /\ out' = [NoOut EXCEPT !.num = a.num, !.ok = TRUE, !.text = r.text]
            /\ paragraphs' = r.index

LookedUp(a) == Shown(a, Looked(paragraphs, a.num))

Lookup ==
    /\ pc = "Done"
    /\ \E as \in Args \ {<<>>} : arg' = as[1] /\ LookedUp(AtoiArg(as[1]))
    /\ UNCHANGED <<urlStr, doc, cache, site, run, visited, netCount, cold, candidates,
                   returned, last, prev, failed, calls>>

\* main without an argument: every paragraph is printed.
ListAll ==
    /\ pc = "Done"
    /\ <<>> \in Args
    /\ pc' = "Listed"
    /\ op' = "list"
    /\ UNCHANGED <<urlStr, paragraphs, doc, cache, site, run, visited, netCount, cold,
                   candidates, returned, last, prev, failed, arg, out, calls>>

\* The program is started again over the same cache directory.
StartRun ==
    /\ pc \in {"Done", "Exited", "Printed", "Listed"}
    /\ run < MaxRuns
    /\ prev' = [ran |-> TRUE, done |-> pc \in {"Done", "Printed", "Listed"}, cold |-> cold,
                index |-> paragraphs, net |-> netCount]
    /\ run' = run + 1
    /\ pc' = "Fetching"
    /\ urlStr' = vaticanFirstPage
    /\ paragraphs' = <<>>
    /\ doc' = EmptyDoc
    /\ visited' = <<>>
    /\ netCount' = 0
    /\ cold' = (DOMAIN cache = {})
    /\ candidates' = <<>>
    /\ last' = NoCall
    /\ failed' = FALSE
    /\ arg' = <<>>
    /\ out' = NoOut
    /\ op' = "none"
    /\ UNCHANGED <<cache, site, returned, calls>>

\* A run in which every operation of the environment succeeds.
Next ==
    \/ Fetch("none")
    \/ Extract
    \/ LocateNext
    \/ Lookup
    \/ ListAll
    \/ StartRun

Spec == Init /\ [][Next]_vars

\* getCatechism when one operation of a call of getOnce may fail.
FetchFaulty == \E fault \in Faults : Fetch(fault)

NextFaults ==
    \/ FetchFaulty
    \/ Extract
    \/ LocateNext
    \/ StartRun

SpecFaults == Init /\ [][NextFaults]_vars

(***************************************************************************)
(* vaticanURL and urlToFilename applied on their own to one input: a       *)
(* prefix followed by every string over TailChars of at most MaxTail       *)
(* characters.                                                             *)
(***************************************************************************)
TailChars == {"/", ".", "_", "x", ":", "?", "%", "<"}

Tails == UNION {[1..k -> TailChars] : k \in 0..MaxTail}

\* "/archive/ENG0015/_INDEX.HTM"
ArchiveIndex == archeng \o <<"/","_","I","N","D","E","X",".","H","T","M">>

Prefixes ==
    { <<>>,
      http,
      <<"H","T","T","P">>,
      <<"h","T","t","p",":">>,
      <<"h","t","t","p","s",":","/","/","h">>,
      <<"f","t","p",":","/","/","h">>,
      vatican,
      ArchiveIndex }

PureInputs == {p \o t : p \in Prefixes, t \in Tails}

InitPure ==
    /\ pc = "Idle"
    /\ urlStr = <<>>
    /\ paragraphs = <<>>
    /\ doc = EmptyDoc
    /\ cache = <<>>
    /\ site = <<>>
    /\ run = 1
    /\ visited = <<>>
    /\ netCount = 0
    /\ cold = TRUE
    /\ candidates = <<>>
    /\ returned = <<>>
    /\ last = NoCall
    /\ prev = NoPrev
    /\ failed = FALSE
    /\ arg \in PureInputs
    /\ out = NoOut
    /\ op = "none"
    /\ calls = [p \in Procs |-> CallAt("none")]

walkerVars ==
    <<pc, urlStr, paragraphs, doc, cache, site, run, visited, netCount, cold,
      candidates, returned, last, prev, failed>>

Applied(name, r) ==
    /\ pc = "Idle"
    /\ op = "none"
    /\ op' = name
    /\ out' = r
    /\ UNCHANGED <<arg, walkerVars, calls>>

URLOut(r) == [NoOut EXCEPT !.url = r.url, !.err = r.err]

NameOut(r) == [NoOut EXCEPT !.exit = r.exit, !.name = r.name]

ApplyVaticanURL == Applied("vaticanURL", URLOut(vaticanURL(arg)))

ApplyUrlToFilename == Applied("urlToFilename", NameOut(urlToFilename(arg)))

NextPure ==
    \/ ApplyVaticanURL
    \/ ApplyUrlToFilename

SpecPure == InitPure /\ [][NextPure]_vars

(***************************************************************************)
(* getOnce line by line, called by two processes at the same time for the  *)
(* first page over one cache directory.  Each system call is one step; no  *)
(* lock is taken and the file is written in place.  The request may fail.  *)
(***************************************************************************)
\* filename, for the first page.
firstFile == urlToFilename(vaticanFirstPage).name

InitRace ==
    /\ pc = "Racing"
    /\ urlStr = vaticanFirstPage
    /\ paragraphs = <<>>
    /\ doc = EmptyDoc
    /\ cache = <<>>
    /\ \E p \in Pages : site = (vaticanFirstPage :> p)
    /\ run = 1
    /\ visited = <<>>
    /\ netCount = 0
    /\ cold = TRUE
    /\ candidates = <<>>
    /\ returned = <<>>
    /\ last = NoCall
    /\ prev = NoPrev
    /\ failed = FALSE
    /\ arg = <<>>
    /\ out = NoOut
    /\ op = "none"
    /\ calls = [p \in Procs |-> CallAt("Stat")]

\* Whether a call has started and not returned.
UnderWay(c) == c.at \in {"Get", "Create", "Write", "Read"}

\* What is left alone by a step of getOnce that touches neither file nor network.
callFrame ==
    <<pc, urlStr, paragraphs, doc, site, run, visited, cold, candidates, returned,
      last, prev, failed, pureVars>>

\* os.Create(filename): the file is there and empty, whatever it held.
Created(files, name) ==
    [n \in DOMAIN files \cup {name} |-> IF n = name THEN NoBytes ELSE files[n]]

\* file.Write(body)
Written_Nothing(files, name, body) == files

Written(files, name, body) == [files EXCEPT ![name] = body]

\* _, err := os.Stat(filename): the call goes on to the GET when the file is
\* not there and to the read otherwise.  A call that starts while another is
\* under way overlaps it.
StatFile(p) ==
    /\ calls[p].at = "Stat"
    /\ calls' = [q \in Procs |->
          IF q = p
          THEN [calls[p] EXCEPT
                   !.at = IF firstFile \in DOMAIN cache THEN "Read" ELSE "Get",
                   !.found = firstFile \in DOMAIN cache,
                   !.overlapped = \E o \in Procs \ {p} : UnderWay(calls[o])]
          ELSE [calls[q] EXCEPT !.overlapped = @ \/ UnderWay(calls[q])]]
    /\ UNCHANGED <<cache, netCount, callFrame>>

\* res, err := http.Get(urlFullStr); body, err := httputil.DumpResponse(res, true)
GetPage(p) ==
    /\ calls[p].at = "Get"
    /\ calls' = [calls EXCEPT ![p].at = "Create",
                              ![p].body = Response(site, FullURL(urlStr))]
    /\ netCount' = netCount + 1
    /\ UNCHANGED <<cache, callFrame>>

\* http.Get or httputil.DumpResponse returns an error: os.Exit(1).
FailFetch_AfterCreate(p) ==
    /\ calls[p].at = "Get"
    /\ calls' = [calls EXCEPT ![p].at = "Exited"]
    /\ netCount' = netCount + 1
    /\ cache' = Created(cache, firstFile)
    /\ UNCHANGED callFrame

FailFetch(p) ==
    /\ calls[p].at = "Get"
    /\ calls' = [calls EXCEPT ![p].at = "Exited"]
    /\ netCount' = netCount + 1
    /\ UNCHANGED <<cache, callFrame>>

\* file, err := os.Create(filename)
CreateFile(p) ==
    /\ calls[p].at = "Create"
    /\ cache' = Created(cache, firstFile)
    /\ calls' = [calls EXCEPT ![p].at = "Write"]
    /\ UNCHANGED <<netCount, callFrame>>

\* file.Write(body)
WriteFile(p) ==
    /\ calls[p].at = "Write"
    /\ cache' = Written(cache, firstFile, calls[p].body)
    /\ calls' = [calls EXCEPT ![p].at = "Read"]
    /\ UNCHANGED <<netCount, callFrame>>

\* data, err := ioutil.ReadFile(filename); return
ReadFile(p) ==
    /\ calls[p].at = "Read"
    /\ calls' = [calls EXCEPT ![p].at = "Returned", ![p].data = cache[firstFile]]
    /\ UNCHANGED <<cache, netCount, callFrame>>

StatStep == \E p \in Procs : StatFile(p)
GetStep == \E p \in Procs : GetPage(p)
FailStep == \E p \in Procs : FailFetch(p)
CreateStep == \E p \in Procs : CreateFile(p)
WriteStep == \E p \in Procs : WriteFile(p)
ReadStep == \E p \in Procs : ReadFile(p)

NextRace ==
    \/ StatStep
    \/ GetStep
    \/ FailStep
    \/ CreateStep
    \/ WriteStep
    \/ ReadStep

SpecRace == InitRace /\ [][NextRace]_vars

(***************************************************************************)
(* The site's chain of pages, as the pages themselves give it: from a      *)
(* page, the page its link labelled "Next" points to.                      *)
(***************************************************************************)
\* The URL the one "Next" link of page points to.
Target(page) == vaticanURL(NextLinks(page)[1].href).url

\* Whether the chain that starts at u is known, gives every page at most one
\* "Next" link and ends, within k pages, at a page without one.
RECURSIVE ChainEnds(_, _)
ChainEnds(u, k) ==
    /\ k > 0
    /\ u \in DOMAIN site
    /\ Len(NextLinks(site[u])) <= 1
    /\ (NextLinks(site[u]) = <<>> \/ ChainEnds(Target(site[u]), k - 1))

\* The URLs of that chain, in order.
RECURSIVE ChainSeq(_, _)
ChainSeq(u, k) ==
    IF k = 0 \/ u \notin DOMAIN site \/ NextLinks(site[u]) = <<>> THEN <<u>>
    ELSE <<u>> \o ChainSeq(Target(site[u]), k - 1)

IsPrefix(s, t) == Len(s) <= Len(t) /\ s = SubSeq(t, 1, Len(s))

(***************************************************************************)
(* The claims.                                                             *)
(***************************************************************************)

\* C1: once a call of getOnce for a URL has returned, every later call for the
\* same URL, in this run or a later one, makes no network request and returns
\* the very bytes the first call returned.
C1_IdempotentCaching ==
    (last.called /\ last.known) =>
        (~last.net /\ ~last.exit /\ last.data = last.prior)

\* C1 witness: a later run asks again for a URL whose response an earlier call
\* fetched, and gets that response.
C1_Witness ==
    /\ last.called /\ last.known /\ run > 1
    /\ last.data.full /\ last.data = returned[last.url]

\* The text of the first of the candidates cs that carries the number n.
FirstText(cs, n) == cs[CHOOSE i \in 1..Len(cs) :
                          cs[i][1] = n /\ \A j \in 1..(i - 1) : cs[j][1] # n][2]

\* The Index holds exactly the numbers met, each with the text it came with first.
FirstWriteWins ==
    /\ DOMAIN paragraphs = {candidates[i][1] : i \in 1..Len(candidates)}
    /\ \A n \in DOMAIN paragraphs :
          paragraphs[n] = [Number |-> n, Text |-> FirstText(candidates, n)]

\* Within a run no stored paragraph changes or disappears.
EntriesStay ==
    run' = run =>
        \A n \in DOMAIN paragraphs :
            n \in DOMAIN paragraphs' /\ paragraphs'[n] = paragraphs[n]

\* C2: deduplication is first-write-wins over the whole crawl: a number once in
\* the Index keeps its text and is never removed, and the Index holds for each
\* number the text of its first occurrence, in the order the pages and their
\* nodes are processed.
C2_FirstWriteWins == [] FirstWriteWins /\ [][EntriesStay]_vars

\* C2 witness: on a later page a number came again with another text, and the
\* Index still holds the first text.
C2_Witness ==
    /\ pc = "LocatingNext"
    /\ Len(visited) >= 2
    /\ \E i, j \in 1..Len(candidates) :
          /\ i < j
          /\ candidates[i][1] = candidates[j][1]
          /\ candidates[i][2] # candidates[j][2]
          /\ j > Len(candidates) - Len(Numbered(doc.paras))
          /\ i <= Len(candidates) - Len(Numbered(doc.paras))
          /\ paragraphs[candidates[i][1]].Text = candidates[i][2]

\* C3: for a finite chain of n pages, each but the last with a "Next" link to
\* the following page, the walker visits exactly those n pages, each once and
\* in chain order, and is Done only after the last.
C3_VisitsChainOnce ==
    ChainEnds(vaticanFirstPage, MaxVisits) =>
        /\ IsPrefix(visited, ChainSeq(vaticanFirstPage, MaxVisits))
        /\ (pc = "Done" => visited = ChainSeq(vaticanFirstPage, MaxVisits))

\* C4: of several links labelled exactly "Next" the first in document order is
\* followed, and a link with any other label is never followed.
C4_FirstNextFollowed ==
    /\ (pc = "Fetching" /\ visited # <<>> /\ NextLinks(doc) # <<>>) =>
           urlStr = vaticanURL(NextLinks(doc)[1].href).url
    /\ (pc = "Fetching" /\ visited # <<>>) => NextLinks(doc) # <<>>

\* An input without a scheme that begins with the archive root.
ArchiveRooted(s) == HasPrefix(s, archeng \o <<"/">>)

\* A path of letters, digits, "_" and "." whose elements are none of "", "."
\* and "..": nothing that path.Join or the URL's escaping would change.
PlainPath(s) ==
    /\ \A i \in 1..Len(s) :
          s[i] \in LowerLetters \cup UpperLetters \cup Digits \cup {"_", ".", "/"}
    /\ \A i \in 2..Len(Split(s, "/")) :
          Split(s, "/")[i] \notin {<<>>, <<".">>, <<".", ".">>}

\* C5: vaticanURL of an input that begins with the archive root is
\* the host followed by that same path, the archive prefix not repeated.
C5_PrefixNotRepeated ==
    (op = "vaticanURL" /\ ArchiveRooted(arg) /\ PlainPath(arg)) =>
        out.url = vatican \o arg

\* Whether s starts with a scheme and its colon, as an absolute URL does.
HasScheme(s) == SchemeEnd(s, 1) > 0

\* Whether that scheme is http or https.
HasHttpScheme(s) ==
    /\ HasScheme(s)
    /\ ToLower(SubSeq(s, 1, SchemeEnd(s, 1) - 1)) \in {http, http \o <<"s">>}

\* C6: vaticanURL returns its input unchanged exactly when the input has an
\* absolute-URL scheme prefix; every other input, a relative name that starts
\* with the letters "http" included, is joined under the host and archive root.
\* Stated in its weakest reading: an input returned unchanged has a scheme, an
\* input with the scheme http or https is returned unchanged, and the result
\* for an input without a scheme lies under the fixed host.
C6_UnchangedIffScheme ==
    op = "vaticanURL" =>
        /\ (~out.err /\ out.url = arg) => HasScheme(arg)
        /\ HasHttpScheme(arg) => (~out.err /\ out.url = arg)
        /\ (~HasScheme(arg) /\ ~out.err) => HasPrefix(out.url, vatican \o <<"/">>)

\* C7: over a cold cache a crawl of a chain of n pages makes one network fetch
\* for each page, n in all; a repeat crawl over the cache it left makes none
\* and builds the same Index.
C7_FetchAccounting ==
    /\ (cold /\ ChainEnds(vaticanFirstPage, MaxVisits) /\ pc # "Fetching") =>
           netCount = Len(visited)
    /\ (cold /\ ChainEnds(vaticanFirstPage, MaxVisits) /\ pc = "Done") =>
           netCount = Len(ChainSeq(vaticanFirstPage, MaxVisits))
    /\ (prev.ran /\ prev.done /\ prev.cold /\ pc = "Done") =>
           (netCount = 0 /\ paragraphs = prev.index)

\* C8: the name urlToFilename derives is a single valid file name: not empty,
\* without a path separator, neither "." nor "..", without an illegal character.
C8_KeyIsFilename ==
    (op = "urlToFilename" /\ ~out.exit) =>
        /\ out.name # <<>>
        /\ ~Contains(out.name, "/")
        /\ ~IsDirName(out.name)
        /\ \A i \in 1..Len(out.name) : out.name[i] \notin illegalChars

\* C9: when getOnce cannot stat, create, write or read back the cache file the
\* process ends there; getOnce returns nothing to the walker after such a failure.
C9_CacheFailureFatal ==
    (last.called /\ last.ioFail) => (last.exit /\ pc = "Exited")

\* C10: when vaticanURL fails on the href of a "Next" link the process ends;
\* the walker neither fetches again nor returns an Index.
C10_MalformedURLFatal == failed => pc = "Exited"

\* Whether a text starts with a decimal digit.
StartsWithDigit(t) == Len(t) > 0 /\ t[1] \in Digits

\* The value of the digits t starts with, read from the left.
RECURSIVE LeadingValue(_, _)
LeadingValue(t, acc) ==
    IF StartsWithDigit(t) THEN LeadingValue(Tail(t), 10 * acc + DigitValue(t[1]))
    ELSE acc

\* Whether the number a text starts with is one an int can hold.
StartsWithInt(t) ==
    StartsWithDigit(t) /\ InRange(StripZeros(SubSeq(t, 1, DigitRun(t))))

\* The candidates the step adds.
Added == SubSeq(candidates', Len(candidates) + 1, Len(candidates'))

\* Whether the candidates added are the texts given, in order, each with the
\* value of its leading digits as its number.
AddedAre(texts) ==
    /\ [i \in 1..Len(Added) |-> Added[i][2]] = texts
    /\ \A i \in 1..Len(Added) : Added[i][1] = LeadingValue(Added[i][2], 0)

\* C11: the extraction of a page yields, in document order, exactly the <p>
\* texts that start with one or more decimal digits, each with the value of
\* that run of digits as its number and the whole text as its text.
C11_ExtractsEveryNumbered ==
    [][pc = "Extracting" => AddedAre(SelectSeq(doc.paras, StartsWithDigit))]_vars

\* C11 as amended: the extraction of a page yields, in document order, exactly
\* the <p> texts that start with a run of decimal digits whose value an int
\* holds, each with that value as its number and the whole text as its text; a
\* text without a leading digit, or whose leading number is too large for an
\* int, yields nothing.
C11_ExtractsEveryInt ==
    [][pc = "Extracting" => AddedAre(SelectSeq(doc.paras, StartsWithInt))]_vars

\* C11 witness: the page with "1 a", "x", a text of twenty digits and "1 b" has
\* been extracted and has yielded the first and the last, in that order.
C11_Witness ==
    /\ pc = "LocatingNext"
    /\ doc.paras = <<T_1a, T_x, T_big, T_1b>>
    /\ candidates = << <<1, T_1a>>, <<1, T_1b>> >>

\* C12: a call of getOnce that overlaps no other call returns the whole
\* response; only a call that runs while another call for the same URL is
\* under way can find the file there and read it empty, or find it missing
\* although the other call has requested the page.
C12_AloneReadsWhole ==
    \A p \in Procs :
        (calls[p].at = "Returned" /\ ~calls[p].overlapped) =>
            /\ calls[p].data = Response(site, vaticanFirstPage)
            /\ (calls[p].found => netCount = 1)

\* C12 witness: one of two calls made at the same time found the cache file
\* there, read it and returned no bytes.
C12_Witness ==
    \E p \in Procs :
        /\ calls[p].at = "Returned"
        /\ calls[p].found
        /\ calls[p].overlapped
        /\ calls[p].data = NoBytes

\* The cache file of the URL of the last call of getOnce.
lastFile == urlToFilename(last.url).name

\* C13: when a call of getOnce that found no cache file for its URL returns,
\* it has requested the page, the cache file holds the whole dumped response,
\* and the bytes returned are that response.
C13_WriteBeforeReturn ==
    (last.called /\ last.absent /\ ~last.exit) =>
        /\ last.net
        /\ lastFile \in DOMAIN cache
        /\ cache[lastFile] = DumpResponse(site[FullURL(last.url)])
        /\ last.data = cache[lastFile]
        /\ last.data.full

\* C13 witness: the second call of a run found no cache file, requested the
\* page and has returned.
C13_Witness ==
    /\ last.called /\ last.absent /\ ~last.exit
    /\ Len(visited) = 2
    /\ netCount = 2

\* The cache file of the URL getOnce is about to be called with.
nextFile == urlToFilename(urlStr).name

\* What a step may do to the cache directory: every file that is there stays
\* as it is, the only file that may appear is the one of the URL requested,
\* nothing changes when that file is already there, and a call that found no
\* file and returned without an I/O error has created it.
CacheFrame ==
    /\ \A n \in DOMAIN cache : n \in DOMAIN cache' /\ cache'[n] = cache[n]
    /\ DOMAIN cache' \ DOMAIN cache \subseteq {nextFile}
    /\ nextFile \in DOMAIN cache => cache' = cache
    /\ (pc = "Fetching" /\ last'.absent /\ ~last'.exit /\ ~last'.ioFail) =>
           DOMAIN cache' = DOMAIN cache \cup {nextFile}

\* C14: a call of getOnce whose cache file exists leaves the cache directory
\* as it is, a call that finds no file creates that one file and changes no
\* other, and no step of the program removes or rewrites a cache file.
C14_WrittenOnce == [][CacheFrame]_vars

\* C14 witness: in a second run, a call of getOnce has found its file among
\* the two files of the cache and has returned it.
C14_Witness ==
    /\ run = 2
    /\ last.called /\ ~last.absent /\ ~last.net /\ ~last.exit
    /\ Len(visited) = 2
    /\ Cardinality(DOMAIN cache) = 2
    /\ last.data = cache[lastFile]

\* Whether this run has passed some URL to getOnce twice.
Revisited == \E i, j \in 1..Len(visited) : i < j /\ visited[i] = visited[j]

\* C15: the walker has no cycle guard: it returns only at a page without a
\* "Next" link, and once the chain has led it back to a URL it has visited it
\* neither returns an Index nor ends, it fetches, extracts and follows again.
C15_NoCycleGuard ==
    /\ pc = "Done" => ~getNextLink(doc).found
    /\ Revisited =>
           /\ pc \in {"Fetching", "Extracting", "LocatingNext"}
           /\ getNextLink(doc).found

\* C15 witness: the page the site serves at the second URL links to itself;
\* the walker has visited it twice and is about to follow its link again.
C15_Witness ==
    /\ pc = "LocatingNext"
    /\ Len(visited) = 3
    /\ visited[2] = visited[3]
    /\ visited[2] \in DOMAIN site
    /\ doc = site[visited[2]]
    /\ getNextLink(doc).found
    /\ vaticanURL(getNextLink(doc).href).url = visited[2]

\* C16: no two different URLs a run visits have the same cache file, and the
\* bytes getOnce returns for a URL are the response the site gives for that
\* URL, never the response stored for another one.
C16_OneURLPerFile ==
    /\ \A i, j \in 1..Len(visited) :
           visited[i] # visited[j] =>
               urlToFilename(visited[i]).name # urlToFilename(visited[j]).name
    /\ (last.called /\ ~last.exit /\ last.data.full) =>
           last.data = DumpResponse(site[FullURL(last.url)])

\* C17: every key of the Index is an integer of at least 1 and the paragraph
\* stored under a key has that key as its Number.
C17_PositiveKeys ==
    \A n \in DOMAIN paragraphs : n \in Nat /\ n >= 1 /\ paragraphs[n].Number = n

\* C18: looking up a number the completed Index does not hold prints the
\* empty text, does not end the process with an error, and leaves the Index as
\* it was, without an entry for that number.
C18_LookupMiss ==
    [][(pc = "Done" /\ op' = "lookup" /\ AtoiArg(arg').ok
           /\ AtoiArg(arg').num \notin DOMAIN paragraphs) =>
           /\ pc' = "Printed"
           /\ ~out'.exit
           /\ out'.text = <<>>
           /\ paragraphs' = paragraphs]_vars

\* C18 witness: main has looked up 9 in an Index that holds 1 and 2 only.
C18_Witness ==
    /\ pc = "Printed"
    /\ op = "lookup"
    /\ arg = <<"9">>
    /\ out.num = 9
    /\ DOMAIN paragraphs = {1, 2}
    /\ out.text = <<>>

\* The cache files of the URLs this run has passed to getOnce.
visitedFiles == {urlToFilename(visited[i]).name : i \in 1..Len(visited)}

\* C19: a run makes at most as many network requests as the URLs it has
\* visited have different cache files: no cache file is requested twice.
C19_RequestsAtMostKeys == netCount <= Cardinality(visitedFiles)

\* C19 witness: a run has visited the same URL twice after the first page and
\* has made two requests, the second visit being served from the cache.
C19_Witness ==
    /\ Len(visited) = 3
    /\ visited[2] = visited[3]
    /\ visited[1] # visited[2]
    /\ netCount = 2
    /\ Cardinality(visitedFiles) = 2
    /\ last.called /\ ~last.net /\ last.data.full

\* C20: a call of getOnce whose request or dump fails ends the process and
\* creates no cache file: unless another call has created the file it is not
\* there, and a call made after the failed one finds no file and requests the
\* page again.
C20_FailedFetchLeavesNoFile ==
    \A q \in Procs : calls[q].at = "Exited" =>
        \A p \in Procs \ {q} :
            /\ calls[p].at \in {"Stat", "Get", "Exited"} => firstFile \notin DOMAIN cache
            /\ (calls[p].at # "Stat" /\ ~calls[p].overlapped) => ~calls[p].found
            /\ (calls[p].at = "Returned" /\ ~calls[p].overlapped) => netCount = 2

\* C20 witness: one call has failed, and a call made after it has requested
\* the page again and returned it.
C20_Witness ==
    \E q \in Procs : \E p \in Procs \ {q} :
        /\ calls[q].at = "Exited"
        /\ calls[p].at = "Returned"
        /\ ~calls[p].overlapped /\ ~calls[p].found
        /\ netCount = 2
        /\ calls[p].data = Response(site, vaticanFirstPage)


====
